---- MODULE Spec2Model ----
(***************************************************************************)
(* Library API (lab7/main.py): a FastAPI service over one SQLite table     *)
(* "books".  The model covers the process lifecycle (module import,        *)
(* startup, shutdown), the logging middleware, request validation, the     *)
(* five CRUD handlers and the single SQL statement each of them awaits.    *)
(* Requests run concurrently: a request yields to the others at every      *)
(* await.                                                                  *)
(***************************************************************************)
EXTENDS Integers, Sequences, FiniteSets, TLC

(***************************************************************************)
(* Bounds of the model.                                                    *)
(***************************************************************************)
MaxReqs == 2        \* requests received during one process lifetime
MaxInFlight == 2    \* requests in flight at the same time

VARIABLES
    phase,        \* "loading" | "imported" | "running" | "stopped"
    connected,    \* database.connect() done and database.disconnect() not yet
    tableExists,  \* the books table exists in library.db
    books,        \* the rows of the books table
    books0,       \* the rows library.db held when the process started
    reqs,         \* the requests received so far, in order of arrival
    log           \* the lines of api.log written by this process

vars == <<phase, connected, tableExists, books, books0, reqs, log>>

(***************************************************************************)
(* JSON values of a request or response body.                              *)
(***************************************************************************)
Str(x) == [t |-> "str", s |-> x, n |-> 0]
Num(x) == [t |-> "num", s |-> "", n |-> x]
Absent == [t |-> "absent", s |-> "", n |-> 0]

NoBody == [title |-> Absent, author |-> Absent, price |-> Absent]

\* float(s) of a JSON string: its value, or -1 when s is not numeric.
FloatOfStr(s) ==
    CASE s = "10" -> 10
      [] s = "25" -> 25
      [] OTHER -> -1

(***************************************************************************)
(* BookBase / BookCreate: title: str, author: str, price: float.           *)
(* A field passes when it is present and of the declared type; a numeric   *)
(* string is accepted for the float field and converted.                   *)
(***************************************************************************)
StrFieldOk(v) == v.t = "str"

FloatFieldOk(v) ==
    \/ v.t = "num"
    \/ v.t = "str" /\ FloatOfStr(v.s) >= 0

FloatField(v) == IF v.t = "num" THEN v.n ELSE FloatOfStr(v.s)

\* Faulty variant of BookCreateOk: price is not checked.
BookCreateOkNoPrice(body) == StrFieldOk(body.title) /\ StrFieldOk(body.author)

BookCreateOk(body) ==
    /\ StrFieldOk(body.title)
    /\ StrFieldOk(body.author)
    /\ FloatFieldOk(body.price)

BookCreate(body) ==
    [title |-> body.title.s, author |-> body.author.s, price |-> FloatField(body.price)]

NoValues == [title |-> "", author |-> "", price |-> 0]

(***************************************************************************)
(* BookDB: the rows of table books.  NoRow is the None a fetch returns.    *)
(***************************************************************************)
NoRow == [id |-> 0, title |-> "", author |-> "", price |-> 0]

BookDB(i, v) == [id |-> i, title |-> v.title, author |-> v.author, price |-> v.price]

Ids(tbl) == {r.id : r \in tbl}

MaxOf(S) == CHOOSE x \in S : \A y \in S : y <= x

\* Faulty variant of NextRowid: the number of rows plus one.
NextRowidByCount(tbl) == Cardinality(tbl) + 1

\* id INTEGER PRIMARY KEY (no AUTOINCREMENT): SQLite gives a new row the
\* largest id in the table plus one, and 1 in an empty table.
NextRowid(tbl) == IF tbl = {} THEN 1 ELSE MaxOf(Ids(tbl)) + 1

\* The rows with id i.
RowsAt(tbl, i) == {r \in tbl : r.id = i}

\* SELECT * FROM books: the rows in rowid order.
RECURSIVE ScanFrom(_)
ScanFrom(tbl) ==
    IF tbl = {} THEN << >>
    ELSE LET first == CHOOSE r \in tbl : \A q \in tbl : r.id <= q.id
         IN  <<first>> \o ScanFrom(tbl \ {first})

\* Faulty variant of SelectAll: fetch_one in place of fetch_all.
SelectAllFirstRow(tbl) ==
    [table |-> tbl, row |-> NoRow,
     rows |-> IF tbl = {} THEN << >> ELSE <<Head(ScanFrom(tbl))>>]

SelectAll(tbl) == [table |-> tbl, row |-> NoRow, rows |-> ScanFrom(tbl)]

\* SELECT * FROM books WHERE id = :id, fetch_one.
SelectOne(tbl, i) ==
    [table |-> tbl,
     row |-> IF RowsAt(tbl, i) = {} THEN NoRow ELSE CHOOSE r \in RowsAt(tbl, i) : TRUE,
     rows |-> << >>]

\* Faulty variant of InsertReturning: :author is bound to the title.
InsertReturningTitleTwice(tbl, v) ==
    LET row == BookDB(NextRowid(tbl), [v EXCEPT !.author = v.title])
    IN  [table |-> tbl \cup {row}, row |-> row, rows |-> << >>]

\* INSERT INTO books (title, author, price) VALUES (...) RETURNING *.
InsertReturning(tbl, v) ==
    LET row == BookDB(NextRowid(tbl), v)
    IN  [table |-> tbl \cup {row}, row |-> row, rows |-> << >>]

\* Faulty variant of UpdateReturning: the WHERE clause is missing.
UpdateReturningNoWhere(tbl, i, v) ==
    IF tbl = {} THEN [table |-> tbl, row |-> NoRow, rows |-> << >>]
    ELSE [table |-> {BookDB(x.id, v) : x \in tbl},
          row |-> BookDB((CHOOSE x \in tbl : \A y \in tbl : x.id <= y.id).id, v),
          rows |-> << >>]

\* Faulty variant of UpdateReturning: INSERT OR REPLACE, an absent id is inserted.
UpdateReturningUpsert(tbl, i, v) ==
    [table |-> (tbl \ RowsAt(tbl, i)) \cup {BookDB(i, v)},
     row |-> BookDB(i, v), rows |-> << >>]

\* UPDATE books SET title, author, price WHERE id = :id RETURNING *.
UpdateReturning(tbl, i, v) ==
    IF RowsAt(tbl, i) = {} THEN [table |-> tbl, row |-> NoRow, rows |-> << >>]
    ELSE [table |-> (tbl \ RowsAt(tbl, i)) \cup {BookDB(i, v)},
          row |-> BookDB(i, v), rows |-> << >>]

\* Faulty variant of DeleteReturning: the row is selected, not deleted.
DeleteReturningKeeps(tbl, i) ==
    [table |-> tbl,
     row |-> IF RowsAt(tbl, i) = {} THEN NoRow ELSE CHOOSE r \in RowsAt(tbl, i) : TRUE,
     rows |-> << >>]

\* DELETE FROM books WHERE id = :id RETURNING *.
DeleteReturning(tbl, i) ==
    IF RowsAt(tbl, i) = {} THEN [table |-> tbl, row |-> NoRow, rows |-> << >>]
    ELSE [table |-> tbl \ RowsAt(tbl, i),
          row |-> CHOOSE r \in RowsAt(tbl, i) : TRUE, rows |-> << >>]

(***************************************************************************)
(* Responses.  A response carries a status and a JSON body: one book, a    *)
(* list of books, {"detail": text} or {"message": text}.                   *)
(***************************************************************************)
NoJson == [id |-> Absent, title |-> Absent, author |-> Absent, price |-> Absent]

\* response_model=Book: the row serialised as {id, title, author, price}.
Book(row) ==
    [id |-> Num(row.id), title |-> Str(row.title),
     author |-> Str(row.author), price |-> Num(row.price)]

\* response_model=List[Book].
RECURSIVE BookList(_)
BookList(rows) ==
    IF rows = << >> THEN << >> ELSE <<Book(Head(rows))>> \o BookList(Tail(rows))

NoResponse == [status |-> 0, kind |-> "none", book |-> NoJson, list |-> << >>, text |-> ""]

BookResponse(row) ==
    [status |-> 200, kind |-> "book", book |-> Book(row), list |-> << >>, text |-> ""]

ListResponse(rows) ==
    [status |-> 200, kind |-> "list", book |-> NoJson, list |-> BookList(rows), text |-> ""]

MessageResponse(msg) ==
    [status |-> 200, kind |-> "message", book |-> NoJson, list |-> << >>, text |-> msg]

\* raise HTTPException(status_code=code, detail=msg)
HTTPException(code, msg) ==
    [status |-> code, kind |-> "detail", book |-> NoJson, list |-> << >>, text |-> msg]

\* The framework's answer to a body that fails BookCreate.
RequestValidationError == HTTPException(422, "validation error")

\* The framework's answer to a path no route matches.
RouteNotFound == HTTPException(404, "Not Found")

\* An exception no handler catches (the storage call failed).
ServerError == HTTPException(500, "Internal Server Error")

(***************************************************************************)
(* Routing: the handler a method and a route select.                       *)
(***************************************************************************)
Handler(method, route) ==
    CASE method = "GET" /\ route = "/books" -> "get_books"
      [] method = "GET" /\ route = "/books/{id}" -> "get_book"
      [] method = "POST" /\ route = "/books" -> "create_book"
      [] method = "PUT" /\ route = "/books/{id}" -> "update_book"
      [] method = "DELETE" /\ route = "/books/{id}" -> "delete_book"
      [] OTHER -> "none"

HasBody(op) == op \in {"create_book", "update_book"}

(***************************************************************************)
(* The one statement each handler awaits, applied to table tbl.            *)
(***************************************************************************)
Query(op, tbl, i, v) ==
    CASE op = "get_books" -> SelectAll(tbl)
      [] op = "get_book" -> SelectOne(tbl, i)
      [] op = "create_book" -> InsertReturning(tbl, v)
      [] op = "update_book" -> UpdateReturning(tbl, i, v)
      [] OTHER -> DeleteReturning(tbl, i)

(***************************************************************************)
(* What each handler returns or raises once its statement has answered.    *)
(***************************************************************************)
get_books(rows) == ListResponse(rows)

get_book(row) ==
    IF row = NoRow THEN HTTPException(404, "Book not found") ELSE BookResponse(row)

create_book(row) == BookResponse(row)

update_book(row) ==
    IF row = NoRow THEN HTTPException(404, "Book not found") ELSE BookResponse(row)

\* Faulty variant of delete_book: the None check is missing.
delete_bookUnchecked(row) == MessageResponse("Book deleted successfully")

delete_book(row) ==
    IF row = NoRow THEN HTTPException(404, "Book not found")
    ELSE MessageResponse("Book deleted successfully")

HandlerResult(op, row, rows) ==
    CASE op = "get_books" -> get_books(rows)
      [] op = "get_book" -> get_book(row)
      [] op = "create_book" -> create_book(row)
      [] op = "update_book" -> update_book(row)
      [] OTHER -> delete_book(row)

\* logger.warning(f"Book with id {book_id} not found") is reached.
WarnsNotFound(op, row) ==
    op \in {"get_book", "update_book", "delete_book"} /\ row = NoRow

(***************************************************************************)
(* Lines of api.log.  rid is the request that wrote the line (0: none).    *)
(***************************************************************************)
LifecycleLine(who) ==
    [rid |-> 0, level |-> "INFO", by |-> who, method |-> "", route |-> "", id |-> 0, status |-> 0]

\* logger.info(...) at the top of a handler.
HandlerLine(rid, q) ==
    [rid |-> rid, level |-> "INFO", by |-> q.op, method |-> q.method,
     route |-> q.route, id |-> q.id, status |-> 0]

\* logger.warning(f"Book with id {book_id} not found")
WarningLine(rid, q) ==
    [rid |-> rid, level |-> "WARNING", by |-> q.op, method |-> "",
     route |-> "", id |-> q.id, status |-> 0]

\* Faulty variant of RequestLine: the status logged is always 200.
RequestLineAlways200(rid, q, response) ==
    [rid |-> rid, level |-> "INFO", by |-> "log_requests", method |-> q.method,
     route |-> q.route, id |-> q.id, status |-> 200]

\* log_requests: f"{method} {path} - Status: {status_code} - Duration: ..."
RequestLine(rid, q, response) ==
    [rid |-> rid, level |-> "INFO", by |-> "log_requests", method |-> q.method,
     route |-> q.route, id |-> q.id, status |-> response.status]

\* log_requests: return response
Returned(response) == response

(***************************************************************************)
(* What clients send.                                                      *)
(***************************************************************************)
\* A body that passes BookCreate as it is, and one that fails it.
Bodies ==
    { [title |-> Str("Test Book"), author |-> Str("Test Author"), price |-> Num(10)],
      [title |-> Str("Test Book"), author |-> Str("Test Author"), price |-> Str("abc")] }

\* A body that passes after conversion of its price.
ConvertedBodies ==
    { [title |-> Str("Updated Book"), author |-> Str("Updated Author"), price |-> Str("25")] }

\* Another body that passes as it is, and bodies with a field missing.
OtherBodies ==
    { [title |-> Str("Updated Book"), author |-> Str("Updated Author"), price |-> Num(13)],
      [title |-> Str("Test Book"), author |-> Str("Test Author"), price |-> Absent],
      [title |-> Str("Test Book"), author |-> Absent, price |-> Num(10)],
      [title |-> Absent, author |-> Str("Test Author"), price |-> Num(10)] }

PathIds == {1, 2}

\* The requests of specification Spec.
Inbound ==
    {[method |-> "GET", route |-> "/books", id |-> 0, body |-> NoBody],
     [method |-> "GET", route |-> "/", id |-> 0, body |-> NoBody]}
    \cup [method : {"GET", "DELETE"}, route : {"/books/{id}"}, id : PathIds, body : {NoBody}]
    \cup [method : {"POST"}, route : {"/books"}, id : {0}, body : Bodies]
    \cup [method : {"PUT"}, route : {"/books/{id}"}, id : PathIds, body : Bodies]

\* The requests of specification SpecBodies: every body, on create and update.
InboundBodies ==
    [method : {"POST"}, route : {"/books"}, id : {0},
     body : Bodies \cup OtherBodies \cup ConvertedBodies]
    \cup [method : {"PUT"}, route : {"/books/{id}"}, id : PathIds,
          body : Bodies \cup OtherBodies]

\* library.db outlives the process: the rows a process may find at its start.
StoredTables ==
    { {},
      {[id |-> 1, title |-> "Old Book", author |-> "Old Author", price |-> 7]},
      {[id |-> 1, title |-> "Old Book", author |-> "Old Author", price |-> 7],
       [id |-> 2, title |-> "Other Book", author |-> "Other Author", price |-> 9]} }

(***************************************************************************)
(* The state of one request.  pc is where it stands:                       *)
(*   "handler"    its handler awaits the storage statement                 *)
(*   "responded"  a response exists, call_next has not returned it yet     *)
(*   "done"       log_requests has logged and returned the response        *)
(*   "failed"     an exception passed through log_requests                 *)
(* ord is the position of its statement among all statements executed.     *)
(***************************************************************************)
InFlight == {r \in 1..Len(reqs) : reqs[r].pc \notin {"done", "failed"}}

Executed == {r \in 1..Len(reqs) : reqs[r].ord > 0}

NewRequest(inp) ==
    LET op == Handler(inp.method, inp.route)
        ok == ~HasBody(op) \/ BookCreateOk(inp.body)
    IN  [method |-> inp.method, route |-> inp.route, id |-> inp.id, body |-> inp.body,
         op |-> op,
         values |-> IF HasBody(op) /\ ok THEN BookCreate(inp.body) ELSE NoValues,
         pc |-> IF op = "none" \/ ~ok THEN "responded" ELSE "handler",
         row |-> NoRow, rows |-> << >>,
         resp |-> IF op = "none" THEN RouteNotFound
                  ELSE IF ~ok THEN RequestValidationError ELSE NoResponse,
         sent |-> NoResponse,
         ord |-> 0]

(***************************************************************************)
(* Lifecycle.                                                              *)
(***************************************************************************)
\* Base.metadata.create_all(bind=engine): the table exists afterwards.
create_all(exists) == TRUE

\* Faulty variant of connect: startup does not connect.
connectForgotten == FALSE

\* await database.connect()
connect == TRUE

Init ==
    /\ phase = "loading"
    /\ connected = FALSE
    /\ tableExists \in BOOLEAN
    /\ books \in StoredTables
    /\ (~tableExists => books = {})
    /\ books0 = books
    /\ reqs = << >>
    /\ log = << >>

\* The module is imported: the table is created if absent.
ImportModule ==
    /\ phase = "loading"
    /\ phase' = "imported"
    /\ tableExists' = create_all(tableExists)
    /\ UNCHANGED <<connected, books, books0, reqs, log>>

\* @app.on_event("startup")
startup ==
    /\ phase = "imported"
    /\ phase' = "running"
    /\ connected' = connect
    /\ log' = Append(log, LifecycleLine("startup"))
    /\ UNCHANGED <<tableExists, books, books0, reqs>>

\* @app.on_event("shutdown"): the server runs it once no request is in flight.
shutdown ==
    /\ phase = "running"
    /\ InFlight = {}
    /\ phase' = "stopped"
    /\ connected' = FALSE
    /\ log' = Append(log, LifecycleLine("shutdown"))
    /\ UNCHANGED <<tableExists, books, books0, reqs>>

(***************************************************************************)
(* One request.                                                            *)
(***************************************************************************)
\* log_requests up to call_next, routing, body validation, and the handler
\* up to its await.
Receive(inp) ==
    /\ phase = "running"
    /\ Len(reqs) < MaxReqs
    /\ Cardinality(InFlight) < MaxInFlight
    /\ LET q == NewRequest(inp)
           rid == Len(reqs) + 1
       IN  /\ reqs' = Append(reqs, q)
           /\ log' = IF q.pc = "handler" THEN Append(log, HandlerLine(rid, q)) ELSE log
    /\ UNCHANGED <<phase, connected, tableExists, books, books0>>

\* await database.fetch_one / fetch_all: the storage engine executes the
\* statement and the handler goes on with its answer: it returns, or warns and
\* raises 404.  With no connection or no table the call raises instead.
Statement(r) ==
    /\ r \in 1..Len(reqs)
    /\ reqs[r].pc = "handler"
    /\ IF connected /\ tableExists
       THEN LET q == reqs[r]
                res == Query(q.op, books, q.id, q.values)
            IN  /\ books' = res.table
                /\ reqs' = [reqs EXCEPT ![r].pc = "responded",
                                        ![r].row = res.row,
                                        ![r].rows = res.rows,
                                        ![r].resp = HandlerResult(q.op, res.row, res.rows),
                                        ![r].ord = Cardinality(Executed) + 1]
                /\ log' = IF WarnsNotFound(q.op, res.row)
                          THEN Append(log, WarningLine(r, q)) ELSE log
       ELSE /\ books' = books
            /\ log' = log
            /\ reqs' = [reqs EXCEPT ![r].pc = "failed", ![r].sent = ServerError]
    /\ UNCHANGED <<phase, connected, tableExists, books0>>

\* log_requests after call_next: log the line, return the response.
LogRequests(r) ==
    /\ r \in 1..Len(reqs)
    /\ reqs[r].pc = "responded"
    /\ LET q == reqs[r]
       IN  /\ log' = Append(log, RequestLine(r, q, q.resp))
           /\ reqs' = [reqs EXCEPT ![r].pc = "done", ![r].sent = Returned(q.resp)]
    /\ UNCHANGED <<phase, connected, tableExists, books, books0>>

Next ==
    \/ ImportModule
    \/ startup
    \/ shutdown
    \/ \E inp \in Inbound : Receive(inp)
    \/ \E r \in 1..MaxReqs : Statement(r)
    \/ \E r \in 1..MaxReqs : LogRequests(r)

Spec == Init /\ [][Next]_vars

NextBodies ==
    \/ ImportModule
    \/ startup
    \/ shutdown
    \/ \E inp \in InboundBodies : Receive(inp)
    \/ \E r \in 1..MaxReqs : Statement(r)
    \/ \E r \in 1..MaxReqs : LogRequests(r)

SpecBodies == Init /\ [][NextBodies]_vars

(***************************************************************************)
(* Vocabulary of the properties.                                           *)
(***************************************************************************)
Reqs == 1..Len(reqs)

\* A body as the data model describes it: two texts and a number.
ValidBody(b) == b.title.t = "str" /\ b.author.t = "str" /\ b.price.t = "num"

\* A body with a field missing or a price that is no number.
Malformed(b) ==
    \/ b.title.t = "absent"
    \/ b.author.t = "absent"
    \/ b.price.t = "absent"
    \/ b.price.t = "str" /\ b.price.s \notin {"10", "25"}

\* Request r has a response (from its handler or from the framework).
Answered(r) == reqs[r].pc \in {"responded", "done"}

\* This step is the storage statement of request r and its handler's answer.
Executes(r) == r \in Reqs /\ reqs[r].pc = "handler" /\ reqs'[r].pc # "handler"

\* The response is 404 {"detail": "Book not found"}.
BookNotFound(resp) ==
    resp.status = 404 /\ resp.kind = "detail" /\ resp.text = "Book not found"

\* What the client got is what the handler answered.
SentAsAnswered == \A r \in Reqs : reqs[r].pc = "done" => reqs[r].sent = reqs[r].resp

\* The lines request r wrote, in order.
LinesOf(r) == SelectSeq(log, LAMBDA l : l.rid = r)

RequestLinesOf(r) == SelectSeq(log, LAMBDA l : l.rid = r /\ l.by = "log_requests")

\* r2 arrived while r1 was still in flight (r1 arrived first).
Overlap(r1, r2) ==
    /\ r1 \in Reqs /\ r2 \in Reqs /\ r1 < r2
    /\ \E j \in 1..Len(log) :
          /\ log[j].rid = r2
          /\ \A k \in 1..j : ~(log[k].rid = r1 /\ log[k].by = "log_requests")

(***************************************************************************)
(* C1 as stated: no two records share an id, and the id of a record        *)
(* deleted by this process is never assigned again by a later create.      *)
(* Refuted: stored {1}, DELETE /books/1, POST /books assigns 1 again.      *)
(***************************************************************************)
UniqueIds == \A x \in books : \A y \in books : x.id = y.id => x = y

C1_IdNeverReused ==
    /\ UniqueIds
    /\ \A d \in Reqs : \A c \in Reqs :
          ( /\ reqs[d].op = "delete_book" /\ reqs[d].row # NoRow
            /\ reqs[c].op = "create_book" /\ reqs[c].ord > reqs[d].ord )
          => reqs[c].row.id # reqs[d].row.id

(***************************************************************************)
(* C1 amended: in every state no two records share an id, and every        *)
(* create assigns an id larger than every id then in the table (so one     *)
(* held by no present record); ids of deleted records may come back.       *)
(***************************************************************************)
C1_UniqueFreshIds ==
    /\ []UniqueIds
    /\ [][\A r \in 1..MaxReqs :
            (Executes(r) /\ reqs[r].op = "create_book")
            => /\ reqs'[r].row.id \notin Ids(books)
               /\ \A i \in Ids(books) : i < reqs'[r].row.id
               /\ reqs'[r].row.id \in Ids(books')]_vars

\* A create has been given the id of a record deleted before it.
C1_Witness ==
    \E d \in Reqs : \E c \in Reqs :
        /\ reqs[d].op = "delete_book" /\ reqs[d].row # NoRow
        /\ reqs[c].op = "create_book" /\ reqs[c].ord > reqs[d].ord
        /\ reqs[c].row.id = reqs[d].row.id
        /\ books # {}

C4_GetAfterDelete ==
    \A d \in Reqs : \A g \in Reqs :
        ( /\ reqs[d].op = "delete_book" /\ Answered(d) /\ reqs[d].resp.status = 200
          /\ reqs[g].op = "get_book" /\ Answered(g) /\ reqs[g].id = reqs[d].id
          /\ reqs[g].ord > reqs[d].ord
          /\ ~\E c \in Reqs : /\ reqs[c].op = "create_book"
                              /\ reqs[c].ord > reqs[d].ord
                              /\ reqs[c].ord < reqs[g].ord )
        => BookNotFound(reqs[g].resp)

C4_DeleteRemovesRecord ==
    /\ [](SentAsAnswered /\ C4_GetAfterDelete)
    /\ [][\A r \in 1..MaxReqs :
            ( /\ Executes(r) /\ reqs[r].op = "delete_book"
              /\ reqs[r].id \in Ids(books) )
            => /\ reqs'[r].resp = MessageResponse("Book deleted successfully")
               /\ reqs'[r].resp.book = NoJson
               /\ books' = {x \in books : x.id # reqs[r].id}
               /\ Cardinality(books') = Cardinality(books) - 1]_vars

\* A delete answered 200 and was returned, the table kept its other record,
\* and the get of the same id executed right after it answered 404.
C4_Witness ==
    \E d \in Reqs : \E g \in Reqs :
        /\ reqs[d].op = "delete_book" /\ reqs[d].pc = "done"
        /\ reqs[d].sent.status = 200 /\ reqs[d].sent.kind = "message"
        /\ reqs[g].op = "get_book" /\ reqs[g].id = reqs[d].id
        /\ reqs[g].ord = reqs[d].ord + 1
        /\ reqs[g].pc = "done" /\ BookNotFound(reqs[g].sent)
        /\ Cardinality(books0) = 2 /\ Cardinality(books) = 1

(***************************************************************************)
(* C5: a get, an update or a delete of an id the table does not hold       *)
(* answers 404 "Book not found" and leaves the table as it was.            *)
(***************************************************************************)
C5_AbsentIdIs404 ==
    /\ [](SentAsAnswered)
    /\ [][\A r \in 1..MaxReqs :
            ( /\ Executes(r)
              /\ reqs[r].op \in {"get_book", "update_book", "delete_book"}
              /\ reqs[r].id \notin Ids(books) )
            => /\ BookNotFound(reqs'[r].resp)
               /\ books' = books]_vars

\* An update and a delete of absent ids were both answered 404 and returned,
\* the table still holding a record.
C5_Witness ==
    \E u \in Reqs : \E d \in Reqs :
        /\ reqs[u].op = "update_book" /\ ValidBody(reqs[u].body)
        /\ reqs[u].pc = "done" /\ BookNotFound(reqs[u].sent)
        /\ reqs[d].op = "delete_book"
        /\ reqs[d].pc = "done" /\ BookNotFound(reqs[d].sent)
        /\ books = books0 /\ books # {}

(***************************************************************************)
(* C6: a list answers 200 with every stored record exactly once and        *)
(* nothing else; a list and a get leave the table as it was.               *)
(***************************************************************************)
C6_ListIsTheTable ==
    /\ [](SentAsAnswered)
    /\ [][\A r \in 1..MaxReqs :
            /\ (Executes(r) /\ reqs[r].op = "get_books")
               => LET resp == reqs'[r].resp
                  IN  /\ resp.status = 200 /\ resp.kind = "list"
                      /\ Len(resp.list) = Cardinality(books)
                      /\ {resp.list[k] : k \in 1..Len(resp.list)}
                            = {Book(x) : x \in books}
                      /\ books' = books
            /\ (Executes(r) /\ reqs[r].op = "get_book") => books' = books]_vars

\* On an empty table one create, then a list: the list has one element,
\* the created record.
C6_Witness ==
    /\ books0 = {}
    /\ Len(reqs) = 2
    /\ reqs[1].op = "create_book" /\ reqs[1].pc = "done"
    /\ reqs[2].op = "get_books" /\ reqs[2].pc = "done"
    /\ reqs[2].sent.status = 200
    /\ reqs[2].sent.list = <<reqs[1].sent.book>>

(***************************************************************************)
(* C7: a create or update whose body misses title, author or price, or     *)
(* whose price is no number, is answered with a 4xx validation error and   *)
(* never reaches a storage statement; for an update this is so whether or  *)
(* not the path id exists.                                                 *)
(***************************************************************************)
Arrives(r) == Len(reqs') = Len(reqs) + 1 /\ r = Len(reqs')

Moves(r) == r \in Reqs /\ reqs'[r].pc # reqs[r].pc

C7_MalformedBodyRejected ==
    /\ [](\A r \in Reqs :
            (HasBody(reqs[r].op) /\ Malformed(reqs[r].body))
            => /\ Answered(r)
               /\ reqs[r].resp.status \in 400..499
               /\ reqs[r].resp.status # 404
               /\ reqs[r].resp = RequestValidationError
               /\ reqs[r].ord = 0
               /\ reqs[r].row = NoRow
               /\ (reqs[r].pc = "done" => reqs[r].sent = reqs[r].resp))
    /\ [][\A r \in 1..MaxReqs :
            ( /\ Arrives(r) \/ Moves(r)
              /\ HasBody(reqs'[r].op) /\ Malformed(reqs'[r].body) )
            => books' = books]_vars

\* Updates with a malformed body, one of a present id and one of an absent
\* id, were both answered 422 and returned.
C7_Witness ==
    /\ Len(reqs) = 2
    /\ \A r \in Reqs :
          /\ reqs[r].op = "update_book" /\ Malformed(reqs[r].body)
          /\ reqs[r].pc = "done" /\ reqs[r].sent.status = 422
    /\ reqs[1].id \in Ids(books) /\ reqs[2].id \notin Ids(books)
    /\ books = books0

C9_Lifecycle ==
    /\ [](/\ connected <=> phase = "running"
          /\ reqs # << >> => tableExists /\ phase \in {"running", "stopped"}
          /\ InFlight # {} => connected
          /\ \A r \in Reqs : reqs[r].pc # "failed")
    /\ [][/\ (connected' # connected)
             => \/ phase = "imported" /\ phase' = "running" /\ connected'
                \/ phase = "running" /\ phase' = "stopped" /\ ~connected'
          /\ (phase' # phase)
             => <<phase, phase'>> \in {<<"loading", "imported">>,
                                       <<"imported", "running">>,
                                       <<"running", "stopped">>}
          /\ reqs' # reqs => connected /\ connected' /\ tableExists
          /\ \A r \in 1..MaxReqs :
                Executes(r) => connected /\ tableExists /\ reqs'[r].ord > 0]_vars

\* The process has stopped, the connection is closed, and a create it served
\* is in the table.
C9_Witness ==
    /\ phase = "stopped" /\ ~connected
    /\ \E r \in Reqs : reqs[r].ord > 0 /\ reqs[r].pc = "done"
    /\ \E r \in Reqs : reqs[r].op = "create_book" /\ reqs[r].row \in books

(***************************************************************************)
(* C10: the responses and the table of concurrently running requests are   *)
(* those of the same requests run one after the other, in the order the    *)
(* storage engine executed their statements.  Of two deletes of one id     *)
(* with no create of that id between them, the first to find the record    *)
(* answers 200 and the other 404; once a delete of an id has answered      *)
(* 200, the table holds no record with that id unless a later create       *)
(* made one, whatever updates run beside it.                               *)
(***************************************************************************)
\* One request run alone on table tbl: the table and the response after it.
Alone(tbl, q) ==
    LET hit == {x \in tbl : x.id = q.id}
        new == [id |-> q.id, title |-> q.values.title,
                author |-> q.values.author, price |-> q.values.price]
        fresh == IF tbl = {} THEN 1 ELSE 1 + CHOOSE i \in Ids(tbl) : \A j \in Ids(tbl) : j <= i
        missing == [status |-> 404, kind |-> "detail", book |-> NoJson,
                    list |-> << >>, text |-> "Book not found"]
    IN  CASE q.op = "get_books" ->
               [table |-> tbl, resp |-> ListResponse(ScanFrom(tbl))]
          [] q.op = "get_book" ->
               [table |-> tbl,
                resp |-> IF hit = {} THEN missing
                         ELSE BookResponse(CHOOSE x \in hit : TRUE)]
          [] q.op = "create_book" ->
               [table |-> tbl \cup {[new EXCEPT !.id = fresh]},
                resp |-> BookResponse([new EXCEPT !.id = fresh])]
          [] q.op = "update_book" ->
               IF hit = {} THEN [table |-> tbl, resp |-> missing]
               ELSE [table |-> (tbl \ hit) \cup {new}, resp |-> BookResponse(new)]
          [] OTHER ->
               IF hit = {} THEN [table |-> tbl, resp |-> missing]
               ELSE [table |-> tbl \ hit,
                     resp |-> [status |-> 200, kind |-> "message", book |-> NoJson,
                               list |-> << >>, text |-> "Book deleted successfully"]]

\* The request whose statement was the k-th.
ReqAt(k) == CHOOSE r \in Reqs : reqs[r].ord = k

\* The table after the first k statements, run one after the other.
RECURSIVE TableAfter(_)
TableAfter(k) ==
    IF k = 0 THEN books0 ELSE Alone(TableAfter(k - 1), reqs[ReqAt(k)]).table

C10_Serial ==
    /\ \A k \in 1..Cardinality(Executed) :
          reqs[ReqAt(k)].resp = Alone(TableAfter(k - 1), reqs[ReqAt(k)]).resp
    /\ books = TableAfter(Cardinality(Executed))

C10_TwoDeletes ==
    \A d1 \in Reqs : \A d2 \in Reqs :
        ( /\ reqs[d1].op = "delete_book" /\ reqs[d2].op = "delete_book"
          /\ reqs[d1].id = reqs[d2].id
          /\ reqs[d1].ord > 0 /\ reqs[d1].ord < reqs[d2].ord
          /\ ~\E c \in Reqs : /\ reqs[c].op = "create_book"
                              /\ reqs[c].ord > reqs[d1].ord
                              /\ reqs[c].ord < reqs[d2].ord
                              /\ reqs[c].resp.book.id = Num(reqs[d1].id) )
        => /\ reqs[d2].resp.status = 404
           /\ (reqs[d1].id \in Ids(TableAfter(reqs[d1].ord - 1))
                  => reqs[d1].resp.status = 200)

C10_DeletedStaysDeleted ==
    \A d \in Reqs :
        ( /\ reqs[d].op = "delete_book" /\ Answered(d) /\ reqs[d].resp.status = 200
          /\ ~\E c \in Reqs : /\ reqs[c].op = "create_book"
                              /\ reqs[c].ord > reqs[d].ord
                              /\ reqs[c].resp.book.id = Num(reqs[d].id) )
        => reqs[d].id \notin Ids(books)

C10_Serializable == C10_Serial /\ C10_TwoDeletes /\ C10_DeletedStaysDeleted

\* Two deletes of one stored id, in flight together: the second to arrive
\* executed first and answered 200, the first to arrive answered 404.
C10_Witness ==
    \E d1 \in Reqs : \E d2 \in Reqs :
        /\ Overlap(d1, d2)
        /\ reqs[d1].op = "delete_book" /\ reqs[d2].op = "delete_book"
        /\ reqs[d1].id = reqs[d2].id /\ reqs[d1].id \in Ids(books0)
        /\ reqs[d2].ord = 1 /\ reqs[d1].ord = 2
        /\ reqs[d1].pc = "done" /\ reqs[d2].pc = "done"
        /\ reqs[d2].sent.status = 200 /\ reqs[d1].sent.status = 404

====
